---- MODULE Spec2Model ----
(***************************************************************************)
(* Evidence lifecycle and chain-of-custody ledger of GoInspectorGadget:    *)
(* package evidence (EvidenceService over an EvidenceRepository), the      *)
(* in-memory repositories of the investigator CLI, and the CLI handlers    *)
(* that reach them.                                                        *)
(*                                                                         *)
(* Go pointers are modelled explicitly: heap maps an address to the        *)
(* Evidence struct stored there, and the repository map r.evidence maps an *)
(* id to an address, because inMemoryEvidenceRepo stores and returns       *)
(* *Evidence, never a copy.                                                *)
(***************************************************************************)
EXTENDS Integers, Sequences, FiniteSets, TLC

(* ------------------------------ bounds -------------------------------- *)
\* the clock (time.Now().UnixNano()) takes the values 0..MaxClock
MaxClock == 2
\* at most MaxItems ids are ever held by the evidence repository
MaxItems == 1
\* TransferCustody is not applied to a chain of MaxChain events or more
MaxChain == 2
\* the clock advances by at most MaxDrift while one call runs (by any amount
\* between two calls)
MaxDrift == 0
\* at most MaxRepoItems ids are held while the repository's own operations
\* (FindByCase, Delete) run
MaxRepoItems == 2
\* at most MaxCorrespondence correspondences and MaxInterviews interviews are held
MaxCorrespondence == 2
MaxInterviews == 2

VARIABLES
    clock,          \* the last value time.Now() returned
    heap,           \* address -> Evidence struct
    outer,          \* address -> the DigitalEvidence struct embedding it, if any
    evidence,       \* inMemoryEvidenceRepo.evidence: id -> address (*Evidence)
    files,          \* the file system: path -> file
    cases,          \* keys of inMemoryCaseRepo.cases
    currentCaseID,  \* InvestigatorApp.currentCaseID
    ret,            \* the last step: the call, its subject and what it returned
    procs,          \* the goroutines calling the service at the same time
    correspondence, \* inMemoryCorrespondenceRepo.correspondence: id -> Correspondence
    interviews,     \* inMemoryInterviewRepo.interviews: id -> Interview
    transcripts     \* inMemoryTranscriptRepo.transcripts: id -> Transcript

vars ==
    <<clock, heap, outer, evidence, files, cases, currentCaseID, ret, procs,
      correspondence, interviews, transcripts>>

\* what the evidence operations called one at a time never touch
asideVars == <<procs, correspondence, interviews, transcripts>>

\* the repositories of the other services
officeVars == <<correspondence, interviews, transcripts>>

(* --------------------------- program constants ------------------------ *)
TypePhysical == "PHYSICAL"
TypeDigital == "DIGITAL"

StatusCollected == "COLLECTED"
StatusProcessing == "PROCESSING"
StatusAnalyzed == "ANALYZED"
StatusInStorage == "IN_STORAGE"
StatusTransferred == "TRANSFERRED"
StatusReleased == "RELEASED"
StatusDestroyed == "DESTROYED"

(* ------------------------------ helpers ------------------------------- *)
\* m[k] = v of a Go map
Put(m, k, v) == [x \in DOMAIN m \cup {k} |-> IF x = k THEN v ELSE m[x]]

\* the address of the struct the repository holds, or is about to hold, under id.
\* Addresses are opaque; naming a struct's address after its id makes states that
\* differ only in the numbering of the addresses one state.
Addr(id) == "&" \o id

\* objects no longer referenced by the repository are garbage
Live(h, ev) == [a \in {ev[i] : i \in DOMAIN ev} |-> h[a]]

\* the clock readings at or after t
After(t) == t..MaxClock

\* the clock readings k successive calls of time.Now() within one call may return
Readings(k) ==
    {tk \in [1..k -> After(clock)] :
        /\ \A i \in 1..(k - 1) : tk[i] <= tk[i + 1]
        /\ tk[k] - tk[1] <= MaxDrift}

\* generateID: fmt.Sprintf("%s-%d", prefix, time.Now().UnixNano())
generateID(prefix, t) == prefix \o "-" \o ToString(t)

(* ---------------------------- file system ----------------------------- *)
Paths == {"exhibit.bin"}
Contents == {"AAAA", "AAAB"}

Missing == [exists |-> FALSE, readable |-> FALSE, content |-> ""]
Unreadable == [exists |-> TRUE, readable |-> FALSE, content |-> "AAAA"]
FileStates ==
    {Missing, Unreadable} \cup [exists : {TRUE}, readable : {TRUE}, content : Contents]

\* hex.EncodeToString(sha256.Sum(content)): injective on Contents, never empty
SHA256Hex(content) == "sha256:" \o content

\* os.Stat(path)
osStat(path) ==
    IF path \in Paths /\ files[path].exists
    THEN [size |-> Len(files[path].content), err |-> ""]
    ELSE [size |-> 0, err |-> "stat"]

\* filepath.Ext(path)
filepathExt(path) == IF path = "exhibit.bin" THEN ".bin" ELSE ""

\* calculateFileHash(filePath)
calculateFileHash(filePath) ==
    IF ~(filePath \in Paths /\ files[filePath].exists /\ files[filePath].readable)
    THEN [hash |-> "", err |-> "failed to open file"]
    ELSE [hash |-> SHA256Hex(files[filePath].content), err |-> ""]

(* ------------------------------ structs ------------------------------- *)
\* CustodyEvent
CustodyEvent(id, evidenceID, ts, action, fromP, toP, fromL, toL, reason, notes) ==
    [ID |-> id, EvidenceID |-> evidenceID, Timestamp |-> ts, Action |-> action,
     FromPerson |-> fromP, ToPerson |-> toP, FromLocation |-> fromL,
     ToLocation |-> toL, Reason |-> reason, Notes |-> notes]

\* the zero value of the fields of DigitalEvidence around an Evidence; embedded
\* tells whether the Evidence is the embedded field of a DigitalEvidence at all
NoOuter ==
    [embedded |-> FALSE, FilePath |-> "", FileSize |-> 0, FileType |-> "",
     OriginalHash |-> ""]

DigitalOuter(path) == [NoOuter EXCEPT !.embedded = TRUE, !.FilePath = path]

\* interface{}(e).(DigitalEvidence) for e of static type *Evidence: the dynamic
\* type is *Evidence, so the assertion never succeeds
TypeAssertDigitalEvidence(w) == FALSE


\* time.Time{}: the zero value of a timestamp the caller never set
ZeroTime == 0

\* an Evidence literal in which the caller set only the fields the operations read
BaseEvidence ==
    [ID |-> "", CaseID |-> "CASE-1", Description |-> "knife",
     Type |-> TypePhysical, Status |-> "", CollectedBy |-> "officerA",
     CollectionDate |-> ZeroTime, CollectionNotes |-> "",
     Location |-> [Description |-> "scene", Address |-> "1 Main St"],
     StorageLocation |-> "locker", ChainOfCustody |-> <<>>, FileHash |-> "",
     CreatedAt |-> ZeroTime, UpdatedAt |-> ZeroTime]

(* ------------------------------- inputs ------------------------------- *)
CallerIDs == {"EV-A"}
CaseIDs == {"CASE-1", "CASE-404"}
Locations == {"locker", "lab"}

\* a custody event a caller wrote itself into e.ChainOfCustody
ForeignEvent ==
    CustodyEvent("CE-X", "EV-Z", ZeroTime, "TRANSFERRED", "bob", "carol", "van",
                 "lab", "handover", "")

\* a timestamp later than every reading of the clock
Future == MaxClock + 1

\* the *Evidence values callers pass to CreateEvidence and UpdateEvidence: the
\* plain item the CLI builds, the same with an id, a digital item without and with
\* a hash, an item collected at a date the clock has not reached, and an item in
\* which the caller filled the fields the service derives
InputEvidence ==
    { BaseEvidence,
      [BaseEvidence EXCEPT !.ID = "EV-A"],
      [BaseEvidence EXCEPT !.Type = TypeDigital],
      [BaseEvidence EXCEPT !.Type = TypeDigital, !.FileHash = "cafe"],
      [BaseEvidence EXCEPT !.CollectionDate = Future],
      [BaseEvidence EXCEPT !.CaseID = "CASE-404", !.Description = "",
                           !.Status = StatusReleased, !.CollectionDate = Future,
                           !.StorageLocation = "locker",
                           !.ChainOfCustody = <<ForeignEvent>>] }

\* the DigitalEvidence a caller may have wrapped around the Evidence it passes
InputOuter == {NoOuter} \cup {DigitalOuter(p) : p \in Paths}

(* --------------------------- EvidenceService -------------------------- *)
\* a call and the value it returns: ok is VerifyIntegrity's bool, err "" is a nil
\* error
Ret(op, id, ok, err) == [op |-> op, id |-> id, ok |-> ok, err |-> err]

\* os.Exit(1): the process ends, and nothing runs after it
Exit(op) == Ret(op, "", FALSE, "os.Exit(1)")

\* the process has not called os.Exit
Running == ret.err # "os.Exit(1)"

\* what GetEvidence(id) points at
Stored(id) == heap[evidence[id]]

\* CreateEvidence(e) up to its call of repo.Save: the struct as the body leaves it,
\* the error of an early return, and the last clock reading. t1, t2 and t3 are the
\* readings of generateID("EV"), time.Now() and generateID("CE").
CreateEvidenceBody(e, w, t1, t2, t3) ==
    LET e1 == IF e.ID = "" THEN [e EXCEPT !.ID = generateID("EV", t1)] ELSE e
        e2 == [e1 EXCEPT !.CreatedAt = t2, !.UpdatedAt = t2]
        e3 == IF e2.Status = "" THEN [e2 EXCEPT !.Status = StatusCollected] ELSE e2
        hashing ==
            e3.Type = TypeDigital /\ e3.FileHash = "" /\ TypeAssertDigitalEvidence(w)
        h == calculateFileHash(w.FilePath)
        e4 == IF hashing /\ h.err = "" THEN [e3 EXCEPT !.FileHash = h.hash] ELSE e3
        collected ==
            CustodyEvent(generateID("CE", t3), e4.ID, e4.CollectionDate, "COLLECTED",
                         "", e4.CollectedBy,
                         e4.Location.Description \o ", " \o e4.Location.Address,
                         e4.StorageLocation, "Initial collection", e4.CollectionNotes)
        e5 == IF Len(e4.ChainOfCustody) = 0
              THEN [e4 EXCEPT !.ChainOfCustody = <<collected>>]
              ELSE e4
    IN  IF hashing /\ h.err # ""
        THEN [e |-> e3, err |-> "failed to calculate file hash", t |-> t2]
        ELSE [e |-> e5, err |-> "", t |-> t3]

\* the clock readings CreateEvidence(e) may take, in order
CreateTicks(e) ==
    {tk \in Readings(3) :
        /\ (e.ID # "" => tk[1] = tk[2])
        /\ (Len(e.ChainOfCustody) # 0 => tk[3] = tk[2])}

\* CreateEvidence(e) as called by op: w is the DigitalEvidence around e, saveErr
\* whether repo.Save returns an error (inMemoryEvidenceRepo.Save never does)
CreateEvidenceCall(op, e, w, tk, saveErr) ==
    LET r == CreateEvidenceBody(e, w, tk[1], tk[2], tk[3])
        a == Addr(r.e.ID)
    IN  /\ clock' = r.t
        /\ IF r.err # "" \/ saveErr
           THEN UNCHANGED <<heap, outer, evidence>>
           ELSE /\ evidence' = Put(evidence, r.e.ID, a)
                /\ heap' = Live(Put(heap, a, r.e), evidence')
                /\ outer' = Live(Put(outer, a, w), evidence')
        /\ ret' = Ret(op, r.e.ID, FALSE,
                      IF r.err # "" THEN r.err ELSE IF saveErr THEN "save failed" ELSE "")
        /\ UNCHANGED <<files, cases, currentCaseID>>

\* the id CreateEvidence(e) stores e under
CreatedID(e, tk) == CreateEvidenceBody(e, NoOuter, tk[1], tk[2], tk[3]).e.ID

\* CreateEvidenceCall while the repository holds, with the new one, at most
\* MaxItems ids
DoCreateEvidence(op, e, w, tk, saveErr) ==
    /\ Cardinality(DOMAIN evidence \cup {CreatedID(e, tk)}) <= MaxItems
    /\ CreateEvidenceCall(op, e, w, tk, saveErr)

CreateEvidence ==
    \E e \in InputEvidence, w \in InputOuter, saveErr \in BOOLEAN :
        /\ Running
        /\ UNCHANGED asideVars
        /\ (w.embedded => e.Type = TypeDigital)
        /\ \E tk \in CreateTicks(e) :
               DoCreateEvidence("CreateEvidence", e, w, tk, saveErr)

\* GetEvidence(id): repo.Find(id), the stored pointer itself
GetEvidence ==
    \E id \in DOMAIN evidence \cup CallerIDs :
        /\ Running
        /\ UNCHANGED asideVars
        /\ ret' = Ret("GetEvidence", id, FALSE,
                      IF id \in DOMAIN evidence THEN "" ELSE "evidence not found")
        /\ UNCHANGED <<clock, heap, outer, evidence, files, cases, currentCaseID>>

\* the clock readings of TransferCustody: generateID("CE"), Timestamp, UpdatedAt
TransferTicks == Readings(3)

\* a TransferCustody that also marks the item TRANSFERRED
TransferCustody_SetsStatus(evidenceID, fromPerson, toPerson, fromLocation, toLocation, reason, notes, tk, updateErr) ==
    IF evidenceID \notin DOMAIN evidence
    THEN /\ ret' = Ret("TransferCustody", evidenceID, FALSE, "failed to find evidence")
         /\ UNCHANGED <<clock, heap, outer, evidence, files, cases, currentCaseID>>
    ELSE LET a == evidence[evidenceID]
             event == CustodyEvent(generateID("CE", tk[1]), evidenceID, tk[2],
                                   "TRANSFERRED", fromPerson, toPerson, fromLocation,
                                   toLocation, reason, notes)
         IN  /\ Len(heap[a].ChainOfCustody) < MaxChain
             /\ heap' = [heap EXCEPT ![a].ChainOfCustody = Append(@, event),
                                     ![a].StorageLocation = toLocation,
                                     ![a].Status = StatusTransferred,
                                     ![a].UpdatedAt = tk[3]]
             /\ evidence' = IF updateErr THEN evidence
                            ELSE Put(evidence, heap'[a].ID, a)
             /\ clock' = tk[3]
             /\ ret' = Ret("TransferCustody", evidenceID, FALSE,
                           IF updateErr THEN "update failed" ELSE "")
             /\ UNCHANGED <<outer, files, cases, currentCaseID>>

\* a TransferCustody that appends the event and forgets the storage location
TransferCustody_KeepsLocation(evidenceID, fromPerson, toPerson, fromLocation, toLocation, reason, notes, tk, updateErr) ==
    IF evidenceID \notin DOMAIN evidence
    THEN /\ ret' = Ret("TransferCustody", evidenceID, FALSE, "failed to find evidence")
         /\ UNCHANGED <<clock, heap, outer, evidence, files, cases, currentCaseID>>
    ELSE LET a == evidence[evidenceID]
             event == CustodyEvent(generateID("CE", tk[1]), evidenceID, tk[2],
                                   "TRANSFERRED", fromPerson, toPerson, fromLocation,
                                   toLocation, reason, notes)
         IN  /\ Len(heap[a].ChainOfCustody) < MaxChain
             /\ heap' = [heap EXCEPT ![a].ChainOfCustody = Append(@, event),
                                     ![a].UpdatedAt = tk[3]]
             /\ evidence' = IF updateErr THEN evidence
                            ELSE Put(evidence, heap'[a].ID, a)
             /\ clock' = tk[3]
             /\ ret' = Ret("TransferCustody", evidenceID, FALSE,
                           IF updateErr THEN "update failed" ELSE "")
             /\ UNCHANGED <<outer, files, cases, currentCaseID>>

\* a TransferCustody that ignores the error of repo.Find and files the event under
\* a record of its own when the id is unknown
TransferCustody_Upsert(evidenceID, fromPerson, toPerson, fromLocation, toLocation, reason, notes, tk, updateErr) ==
    LET event == CustodyEvent(generateID("CE", tk[1]), evidenceID, tk[2],
                              "TRANSFERRED", fromPerson, toPerson, fromLocation,
                              toLocation, reason, notes)
    IN  IF evidenceID \notin DOMAIN evidence
        THEN LET a == Addr(evidenceID)
                 e == [BaseEvidence EXCEPT !.ID = evidenceID,
                                           !.ChainOfCustody = <<event>>,
                                           !.StorageLocation = toLocation,
                                           !.UpdatedAt = tk[3]]
             IN  /\ Cardinality(DOMAIN evidence \cup {evidenceID}) <= MaxItems
                 /\ evidence' = Put(evidence, evidenceID, a)
                 /\ heap' = Put(heap, a, e)
                 /\ outer' = Put(outer, a, NoOuter)
                 /\ clock' = tk[3]
                 /\ ret' = Ret("TransferCustody", evidenceID, FALSE, "")
                 /\ UNCHANGED <<files, cases, currentCaseID>>
        ELSE LET a == evidence[evidenceID]
             IN  /\ Len(heap[a].ChainOfCustody) < MaxChain
                 /\ heap' = [heap EXCEPT ![a].ChainOfCustody = Append(@, event),
                                         ![a].StorageLocation = toLocation,
                                         ![a].UpdatedAt = tk[3]]
                 /\ evidence' = IF updateErr THEN evidence
                                ELSE Put(evidence, heap'[a].ID, a)
                 /\ clock' = tk[3]
                 /\ ret' = Ret("TransferCustody", evidenceID, FALSE,
                               IF updateErr THEN "update failed" ELSE "")
                 /\ UNCHANGED <<outer, files, cases, currentCaseID>>

\* TransferCustody(evidenceID, fromPerson, toPerson, fromLocation, toLocation,
\* reason, notes); updateErr: whether repo.Update returns an error
\* (inMemoryEvidenceRepo.Update never does)
TransferCustody(evidenceID, fromPerson, toPerson, fromLocation, toLocation, reason, notes, tk, updateErr) ==
    IF evidenceID \notin DOMAIN evidence
    THEN /\ ret' = Ret("TransferCustody", evidenceID, FALSE, "failed to find evidence")
         /\ UNCHANGED <<clock, heap, outer, evidence, files, cases, currentCaseID>>
    ELSE LET a == evidence[evidenceID]
             event == CustodyEvent(generateID("CE", tk[1]), evidenceID, tk[2],
                                   "TRANSFERRED", fromPerson, toPerson, fromLocation,
                                   toLocation, reason, notes)
         IN  /\ Len(heap[a].ChainOfCustody) < MaxChain
             /\ heap' = [heap EXCEPT ![a].ChainOfCustody = Append(@, event),
                                     ![a].StorageLocation = toLocation,
                                     ![a].UpdatedAt = tk[3]]
             /\ evidence' = IF updateErr THEN evidence
                            ELSE Put(evidence, heap'[a].ID, a)
             /\ clock' = tk[3]
             /\ ret' = Ret("TransferCustody", evidenceID, FALSE,
                           IF updateErr THEN "update failed" ELSE "")
             /\ UNCHANGED <<outer, files, cases, currentCaseID>>

Transfer ==
    \E id \in DOMAIN evidence \cup CallerIDs, toLocation \in Locations,
       updateErr \in BOOLEAN :
        /\ Running
        /\ UNCHANGED asideVars
        /\ \E tk \in TransferTicks :
               TransferCustody(id, "officerA", "officerB", "locker", toLocation,
                               "analysis", "", tk, updateErr)

\* the Status values a caller writes into the struct GetEvidence returned, before
\* it hands the struct to UpdateEvidence: none (the status as stored), or the
\* stage after the collection
StatusEdits(id) == {Stored(id).Status, StatusProcessing}

\* e, _ := GetEvidence(id); e.Status = st; UpdateEvidence(e): the update of a
\* pointer the repository holds
UpdateEvidenceStored(id, st, t, updateErr) ==
    LET a == evidence[id]
    IN  /\ heap' = [heap EXCEPT ![a].Status = st, ![a].UpdatedAt = t]
        /\ evidence' = IF updateErr THEN evidence ELSE Put(evidence, heap'[a].ID, a)
        /\ clock' = t
        /\ ret' = Ret("UpdateEvidence", id, FALSE,
                      IF updateErr THEN "update failed" ELSE "")
        /\ UNCHANGED <<outer, files, cases, currentCaseID>>

\* UpdateEvidence(e) on a struct the caller built itself
UpdateEvidenceFresh(e, t, updateErr) ==
    LET a == Addr(e.ID)
        e1 == [e EXCEPT !.UpdatedAt = t]
    IN  /\ Cardinality(DOMAIN evidence \cup {e.ID}) <= MaxItems
        /\ IF updateErr
           THEN UNCHANGED <<heap, outer, evidence>>
           ELSE /\ evidence' = Put(evidence, e1.ID, a)
                /\ heap' = Live(Put(heap, a, e1), evidence')
                /\ outer' = Live(Put(outer, a, NoOuter), evidence')
        /\ clock' = t
        /\ ret' = Ret("UpdateEvidence", e.ID, FALSE,
                      IF updateErr THEN "update failed" ELSE "")
        /\ UNCHANGED <<files, cases, currentCaseID>>

\* the structs a caller builds for UpdateEvidence: the plain item under a stored
\* id (or its own), in the status the caller wants
UpdateInputs ==
    {[BaseEvidence EXCEPT !.ID = i, !.Status = st] :
        i \in DOMAIN evidence \cup CallerIDs,
        st \in {StatusCollected, StatusReleased}}

UpdateEvidence ==
    \E t \in After(clock), updateErr \in BOOLEAN :
        /\ Running
        /\ UNCHANGED asideVars
        /\ \/ \E id \in DOMAIN evidence :
                  \E st \in StatusEdits(id) : UpdateEvidenceStored(id, st, t, updateErr)
           \/ \E e \in UpdateInputs : UpdateEvidenceFresh(e, t, updateErr)

\* a VerifyIntegrity that answers "not intact" for an item that is not DIGITAL
\* instead of refusing it
VerifyIntegrityResult_Verdict(evidenceID) ==
    IF evidenceID \notin DOMAIN evidence
    THEN [ok |-> FALSE, err |-> "failed to find evidence"]
    ELSE IF Stored(evidenceID).Type # TypeDigital
    THEN [ok |-> FALSE, err |-> ""]
    ELSE [ok |-> FALSE, err |-> "failed to convert to digital evidence type"]

\* VerifyIntegrity(evidenceID): the (bool, error) it returns
VerifyIntegrityResult(evidenceID) ==
    IF evidenceID \notin DOMAIN evidence
    THEN [ok |-> FALSE, err |-> "failed to find evidence"]
    ELSE IF Stored(evidenceID).Type # TypeDigital
    THEN [ok |-> FALSE,
          err |-> "integrity verification is only applicable to digital evidence"]
    ELSE IF TypeAssertDigitalEvidence(outer[evidence[evidenceID]])
    THEN LET h == calculateFileHash(outer[evidence[evidenceID]].FilePath)
         IN  IF h.err # ""
             THEN [ok |-> FALSE, err |-> "failed to calculate current file hash"]
             ELSE [ok |-> h.hash = Stored(evidenceID).FileHash, err |-> ""]
    ELSE [ok |-> FALSE, err |-> "failed to convert to digital evidence type"]

\* a VerifyIntegrity that marks the item it could not verify
VerifyIntegrity_Marks ==
    \E id \in DOMAIN evidence \cup CallerIDs :
        /\ Running
        /\ UNCHANGED asideVars
        /\ ret' = Ret("VerifyIntegrity", id, VerifyIntegrityResult(id).ok,
                      VerifyIntegrityResult(id).err)
        /\ heap' = IF id \in DOMAIN evidence /\ ~VerifyIntegrityResult(id).ok
                   THEN [heap EXCEPT ![evidence[id]].Status = StatusAnalyzed]
                   ELSE heap
        /\ UNCHANGED <<clock, outer, evidence, files, cases, currentCaseID>>

VerifyIntegrity ==
    \E id \in DOMAIN evidence \cup CallerIDs :
        /\ Running
        /\ UNCHANGED asideVars
        /\ ret' = Ret("VerifyIntegrity", id, VerifyIntegrityResult(id).ok,
                      VerifyIntegrityResult(id).err)
        /\ UNCHANGED <<clock, heap, outer, evidence, files, cases, currentCaseID>>

\* CreateDigitalEvidence(e) with e.FilePath = path and e.Evidence = ev
CreateDigitalEvidence(ev, path, tk, saveErr) ==
    LET fileInfo == osStat(path)
        h == calculateFileHash(path)
    IN  IF fileInfo.err # "" \/ h.err # ""
        THEN /\ ret' = Ret("CreateDigitalEvidence", ev.ID, FALSE,
                           IF fileInfo.err # "" THEN "failed to get file info"
                           ELSE "failed to calculate file hash")
             /\ UNCHANGED <<clock, heap, outer, evidence, files, cases, currentCaseID>>
        ELSE DoCreateEvidence("CreateDigitalEvidence",
                 [ev EXCEPT !.FileHash = h.hash, !.Type = TypeDigital],
                 [embedded |-> TRUE, FilePath |-> path, FileSize |-> fileInfo.size,
                  FileType |-> filepathExt(path), OriginalHash |-> h.hash],
                 tk, saveErr)

CreateDigital ==
    \E ev \in InputEvidence, path \in Paths, saveErr \in BOOLEAN :
        /\ Running
        /\ UNCHANGED asideVars
        /\ \E tk \in CreateTicks(ev) : CreateDigitalEvidence(ev, path, tk, saveErr)

(* ------------------------- CaseService and CLI ------------------------ *)
\* CaseService.CreateCase(c) with c.ID = id: inMemoryCaseRepo.Save
CreateCase ==
    \E id \in {"CASE-1"} :
        /\ Running
        /\ UNCHANGED asideVars
        /\ cases' = cases \cup {id}
        /\ ret' = Ret("CreateCase", id, FALSE, "")
        /\ UNCHANGED <<clock, heap, outer, evidence, files, currentCaseID>>

\* CaseService.GetCase(id): inMemoryCaseRepo.Find
GetCaseErr(id) == IF id \in cases THEN "" ELSE "case not found"

handleCaseOpen ==
    \E caseID \in CaseIDs :
        /\ Running
        /\ UNCHANGED asideVars
        /\ IF GetCaseErr(caseID) # ""
           THEN ret' = Exit("handleCaseOpen") /\ UNCHANGED currentCaseID
           ELSE ret' = Ret("handleCaseOpen", caseID, FALSE, "")
                /\ currentCaseID' = caseID
        /\ UNCHANGED <<clock, heap, outer, evidence, files, cases>>

\* strings.ToUpper on the --type values given
ToUpper(str) ==
    CASE str = "physical" -> "PHYSICAL"
      [] str = "digital" -> "DIGITAL"
      [] OTHER -> str

\* a handleEvidenceAdd that registers the case it did not find instead of
\* giving up
handleEvidenceAdd_AutoCase(description, evidenceType, caseID, tk) ==
    LET cid == IF caseID = "" THEN currentCaseID ELSE caseID
    IN  IF description = "" \/ cid = ""
        THEN /\ ret' = Exit("handleEvidenceAdd")
             /\ UNCHANGED <<clock, heap, outer, evidence, files, cases, currentCaseID>>
        ELSE /\ cases' = cases \cup {cid}
             /\ ret' = Ret("handleEvidenceAdd", "", FALSE, "")
             /\ UNCHANGED <<clock, heap, outer, evidence, files, currentCaseID>>

\* handleEvidenceAdd(description, evidenceType, caseID); tk: the readings of
\* time.Now() for CollectionDate and of CreateEvidence's three
handleEvidenceAdd(description, evidenceType, caseID, tk) ==
    LET cid == IF caseID = "" THEN currentCaseID ELSE caseID
        e == [BaseEvidence EXCEPT
                 !.Description = description, !.CaseID = cid,
                 !.Type = ToUpper(evidenceType), !.Status = StatusCollected,
                 !.CollectedBy = "Current User", !.CollectionDate = tk[1],
                 !.Location = [Description |-> "Not specified", Address |-> ""],
                 !.StorageLocation = "Evidence Locker"]
    IN  IF description = "" \/ cid = "" \/ GetCaseErr(cid) # ""
        THEN /\ ret' = Exit("handleEvidenceAdd")
             /\ UNCHANGED <<clock, heap, outer, evidence, files, cases, currentCaseID>>
        ELSE DoCreateEvidence("handleEvidenceAdd", e, NoOuter,
                              <<tk[2], tk[3], tk[4]>>, FALSE)

EvidenceAdd ==
    \E description \in {"", "knife"}, evidenceType \in {"physical", "digital"},
       caseID \in {""} \cup CaseIDs :
        /\ Running
        /\ UNCHANGED asideVars
        /\ \E tk \in Readings(4) :
               handleEvidenceAdd(description, evidenceType, caseID, tk)

(* ----------------------------- environment ---------------------------- *)
\* the file at path is written, made unreadable or removed by someone else
WriteFile ==
    \E p \in Paths, f \in FileStates :
        /\ Running
        /\ UNCHANGED asideVars
        /\ f # files[p]
        /\ files' = [files EXCEPT ![p] = f]
        /\ ret' = Ret("WriteFile", p, FALSE, "")
        /\ UNCHANGED <<clock, heap, outer, evidence, cases, currentCaseID>>

(* ---------------------- repository operations ------------------------- *)
\* a call that returns a slice of *Evidence
RetItems(op, id, items) ==
    [op |-> op, id |-> id, ok |-> FALSE, err |-> "", items |-> items]

\* the items callers create in a repository of several: those of InputEvidence
\* that have no file, and the item the foreign custody event speaks of
RepoInputs ==
    {e \in InputEvidence : e.Type = TypePhysical}
        \cup {[BaseEvidence EXCEPT !.ID = "EV-Z", !.CaseID = "CASE-404"]}

RepoCreate ==
    \E e \in RepoInputs :
        /\ Running
        /\ UNCHANGED asideVars
        /\ \E tk \in CreateTicks(e) :
               /\ Cardinality(DOMAIN evidence \cup {CreatedID(e, tk)}) <= MaxRepoItems
               /\ CreateEvidenceCall("CreateEvidence", e, NoOuter, tk, FALSE)

\* the orders in which `for _, e := range m` may visit the keys of a map
Orders(keys) ==
    {o \in [1..Cardinality(keys) -> keys] :
        \A i \in DOMAIN o, j \in DOMAIN o : i # j => o[i] # o[j]}

\* a FindByCase that compares the item's ID, not its CaseID
RECURSIVE FindByCaseLoop_ByID(_, _, _)
FindByCaseLoop_ByID(order, caseID, n) ==
    IF n = 0
    THEN <<>>
    ELSE LET result == FindByCaseLoop_ByID(order, caseID, n - 1)
             e == evidence[order[n]]
         IN  IF heap[e].ID = caseID THEN Append(result, e) ELSE result

\* inMemoryEvidenceRepo.FindByCase(caseID): result after the loop has visited
\* the first n keys of order
RECURSIVE FindByCaseLoop(_, _, _)
FindByCaseLoop(order, caseID, n) ==
    IF n = 0
    THEN <<>>
    ELSE LET result == FindByCaseLoop(order, caseID, n - 1)
             e == evidence[order[n]]
         IN  IF heap[e].CaseID = caseID THEN Append(result, e) ELSE result

FindByCase ==
    \E caseID \in CaseIDs, order \in Orders(DOMAIN evidence) :
        /\ Running
        /\ UNCHANGED asideVars
        /\ ret' = RetItems("FindByCase", caseID,
                           FindByCaseLoop(order, caseID, Len(order)))
        /\ UNCHANGED <<clock, heap, outer, evidence, files, cases, currentCaseID>>

\* the loop of handleEvidenceList over app.repo.evidence
RECURSIVE EvidenceListLoop(_, _, _)
EvidenceListLoop(order, caseID, n) ==
    IF n = 0
    THEN <<>>
    ELSE LET items == EvidenceListLoop(order, caseID, n - 1)
             e == evidence[order[n]]
         IN  IF heap[e].CaseID = caseID THEN Append(items, e) ELSE items

\* handleEvidenceList(caseID): the items it prints
handleEvidenceList(caseID, order) ==
    LET cid == IF caseID = "" THEN currentCaseID ELSE caseID
    IN  /\ ret' = IF cid = ""
                  THEN Exit("handleEvidenceList")
                  ELSE RetItems("handleEvidenceList", cid,
                                EvidenceListLoop(order, cid, Len(order)))
        /\ UNCHANGED <<clock, heap, outer, evidence, files, cases, currentCaseID>>

EvidenceList ==
    \E caseID \in {""} \cup CaseIDs, order \in Orders(DOMAIN evidence) :
        /\ Running
        /\ UNCHANGED asideVars
        /\ handleEvidenceList(caseID, order)

\* inMemoryEvidenceRepo.Delete(id): delete(r.evidence, id)
Delete ==
    \E id \in DOMAIN evidence \cup CallerIDs :
        /\ Running
        /\ UNCHANGED asideVars
        /\ evidence' = [x \in DOMAIN evidence \ {id} |-> evidence[x]]
        /\ heap' = Live(heap, evidence')
        /\ outer' = Live(outer, evidence')
        /\ ret' = Ret("Delete", id, FALSE, "")
        /\ UNCHANGED <<clock, files, cases, currentCaseID>>

(* ----------------------- CorrespondenceService ------------------------ *)
\* correspondence.Status
StatusDraft == "DRAFT"
StatusSent == "SENT"
StatusPending == "PENDING_APPROVAL"
StatusApproved == "APPROVED"

\* the variables the correspondence and interview operations leave alone
evidenceVars == <<heap, outer, evidence, files, cases, currentCaseID, procs>>

\* the Correspondence values callers pass to CreateCorrespondence: without and
\* with an id, in the status the caller chose
InputCorrespondence ==
    [ID : {"", "CORR-A"},
     Status : {StatusDraft, StatusPending, StatusApproved, StatusSent},
     SentAt : {ZeroTime}, CreatedAt : {ZeroTime}, UpdatedAt : {ZeroTime}]

\* CreateCorrespondence(c); t1, t2: the readings of generateID("CORR") and
\* time.Now()
CreateCorrespondence ==
    \E c \in InputCorrespondence, tk \in Readings(2) :
        LET c1 == IF c.ID = "" THEN [c EXCEPT !.ID = generateID("CORR", tk[1])] ELSE c
            c2 == [c1 EXCEPT !.CreatedAt = tk[2], !.UpdatedAt = tk[2]]
        IN  /\ Running
            /\ c.ID # "" => tk[1] = tk[2]
            /\ Cardinality(DOMAIN correspondence \cup {c2.ID}) <= MaxCorrespondence
            /\ correspondence' = Put(correspondence, c2.ID, c2)
            /\ clock' = tk[2]
            /\ ret' = Ret("CreateCorrespondence", c2.ID, FALSE, "")
            /\ UNCHANGED <<interviews, transcripts>>
            /\ UNCHANGED evidenceVars

\* a SendCorrespondence without the check of the status
SendCorrespondence_NoCheck(id, sentAt, t, updateErr) ==
    IF id \notin DOMAIN correspondence
    THEN /\ ret' = Ret("SendCorrespondence", id, FALSE, "correspondence not found")
         /\ UNCHANGED <<clock, correspondence>>
    ELSE /\ correspondence' = [correspondence EXCEPT ![id].Status = StatusSent,
                                                     ![id].SentAt = sentAt,
                                                     ![id].UpdatedAt = t]
         /\ clock' = t
         /\ ret' = Ret("SendCorrespondence", id, FALSE,
                       IF updateErr THEN "update failed" ELSE "")

\* SendCorrespondence(id, sentAt); t: the reading of time.Now(); updateErr:
\* whether correspondenceRepo.Update returns an error
\* (inMemoryCorrespondenceRepo.Update never does). The fields are assigned on the
\* struct the repository holds, before Update is called.
SendCorrespondence(id, sentAt, t, updateErr) ==
    IF id \notin DOMAIN correspondence
    THEN /\ ret' = Ret("SendCorrespondence", id, FALSE, "correspondence not found")
         /\ UNCHANGED <<clock, correspondence>>
    ELSE IF /\ correspondence[id].Status # StatusDraft
            /\ correspondence[id].Status # StatusPending
    THEN /\ ret' = Ret("SendCorrespondence", id, FALSE, "cannot send correspondence")
         /\ UNCHANGED <<clock, correspondence>>
    ELSE /\ correspondence' = [correspondence EXCEPT ![id].Status = StatusSent,
                                                     ![id].SentAt = sentAt,
                                                     ![id].UpdatedAt = t]
         /\ clock' = t
         /\ ret' = Ret("SendCorrespondence", id, FALSE,
                       IF updateErr THEN "update failed" ELSE "")

Send ==
    \E id \in DOMAIN correspondence \cup {"CORR-A"}, updateErr \in BOOLEAN :
        \E sentAt \in After(clock) :
            \E t \in After(sentAt) :
                /\ Running
                /\ SendCorrespondence(id, sentAt, t, updateErr)
                /\ UNCHANGED <<interviews, transcripts>>
                /\ UNCHANGED evidenceVars

(* -------------------------- InterviewService -------------------------- *)
\* the Interview values callers pass to CreateInterview: without and with an id,
\* without and with a recording
InputInterviews ==
    [ID : {"", "INT-A"}, RecordingPath : {"", "rec.wav"}, TranscriptID : {""},
     CreatedAt : {ZeroTime}, UpdatedAt : {ZeroTime}]

\* CreateInterview(i); the readings of generateID() and time.Now()
CreateInterview ==
    \E i \in InputInterviews, tk \in Readings(2) :
        LET i1 == IF i.ID = "" THEN [i EXCEPT !.ID = generateID("INT", tk[1])] ELSE i
            i2 == [i1 EXCEPT !.CreatedAt = tk[2], !.UpdatedAt = tk[2]]
        IN  /\ Running
            /\ i.ID # "" => tk[1] = tk[2]
            /\ Cardinality(DOMAIN interviews \cup {i2.ID}) <= MaxInterviews
            /\ interviews' = Put(interviews, i2.ID, i2)
            /\ clock' = tk[2]
            /\ ret' = Ret("CreateInterview", i2.ID, FALSE, "")
            /\ UNCHANGED <<correspondence, transcripts>>
            /\ UNCHANGED evidenceVars

\* dummySpeechRecognizer.Transcribe(audioPath, options): a Transcript literal
\* in which ID and InterviewID are not set
dummyTranscribe(audioPath) ==
    [ID |-> "", InterviewID |-> "", Content |-> "This is a simulated transcript.",
     IsAutomated |-> TRUE]

\* TranscribeInterview(interviewID, options); t: the reading of time.Now()
TranscribeInterview(interviewID, t) ==
    IF interviewID \notin DOMAIN interviews
    THEN /\ ret' = Ret("TranscribeInterview", interviewID, FALSE,
                       "failed to find interview")
         /\ UNCHANGED <<clock, interviews, transcripts>>
    ELSE IF interviews[interviewID].RecordingPath = ""
    THEN /\ ret' = Ret("TranscribeInterview", interviewID, FALSE,
                       "interview has no recording path")
         /\ UNCHANGED <<clock, interviews, transcripts>>
    ELSE LET transcript ==
                 [dummyTranscribe(interviews[interviewID].RecordingPath)
                     EXCEPT !.InterviewID = interviewID]
         IN  /\ transcripts' = Put(transcripts, transcript.ID, transcript)
             /\ interviews' = [interviews EXCEPT
                                  ![interviewID].TranscriptID = transcript.ID,
                                  ![interviewID].UpdatedAt = t]
             /\ clock' = t
             /\ ret' = Ret("TranscribeInterview", interviewID, FALSE, "")

Transcribe ==
    \E interviewID \in DOMAIN interviews \cup {"INT-A"}, t \in After(clock) :
        /\ Running
        /\ TranscribeInterview(interviewID, t)
        /\ UNCHANGED correspondence
        /\ UNCHANGED evidenceVars

(* ----------------------- concurrent callers --------------------------- *)
\* EvidenceService and inMemoryEvidenceRepo hold no lock: goroutines that call
\* the service at the same time interleave at every read and write of the map
\* and of the struct the map points at.
Transferrers == {"t1", "t2"}
Readers == {"r1"}
Goroutines == Transferrers \cup Readers

\* the item the goroutines work on
SharedID == "EV-A"

\* the zero CustodyEvent
NoEvent == CustodyEvent("", "", ZeroTime, "", "", "", "", "", "", "")

\* what a reader has read through the pointer GetEvidence returned
NoSnapshot == [taken |-> FALSE, ChainOfCustody |-> <<>>, StorageLocation |-> ""]

\* a goroutine that has not called the service: pc is its position, the other
\* fields the locals of TransferCustody (toLocation, evidence, event, the slice
\* append read, err) and of the reader (seen)
Idle ==
    [pc |-> "idle", toLocation |-> "", ptr |-> "", event |-> NoEvent,
     chain |-> <<>>, err |-> "", seen |-> NoSnapshot]

\* the variables no goroutine step touches
seqVars ==
    <<outer, files, cases, currentCaseID, ret, correspondence, interviews, transcripts>>

\* the item is created, by one caller, before the goroutines start
SeedEvidence ==
    /\ Running
    /\ evidence = <<>>
    /\ \A g \in Goroutines : procs[g].pc = "idle"
    /\ \E tk \in CreateTicks([BaseEvidence EXCEPT !.ID = SharedID]) :
           DoCreateEvidence("CreateEvidence", [BaseEvidence EXCEPT !.ID = SharedID],
                            NoOuter, tk, FALSE)
    /\ UNCHANGED asideVars

\* go TransferCustody(SharedID, "officerA", "officerB", "locker", toLocation, ...)
TransferCall ==
    \E g \in Transferrers, toLocation \in Locations :
        /\ procs[g].pc = "idle"
        /\ procs' = [procs EXCEPT ![g].pc = "find", ![g].toLocation = toLocation]
        /\ UNCHANGED <<clock, heap, evidence>>
        /\ UNCHANGED seqVars

\* evidence, err := s.repo.Find(evidenceID); if err != nil { return }
TransferFind ==
    \E g \in Transferrers :
        /\ procs[g].pc = "find"
        /\ procs' = IF SharedID \in DOMAIN evidence
                    THEN [procs EXCEPT ![g].pc = "event", ![g].ptr = evidence[SharedID]]
                    ELSE [procs EXCEPT ![g].pc = "done",
                                       ![g].err = "failed to find evidence"]
        /\ UNCHANGED <<clock, heap, evidence>>
        /\ UNCHANGED seqVars

\* event := CustodyEvent{ID: generateID("CE"), ..., Timestamp: time.Now(), ...}
TransferEvent ==
    \E g \in Transferrers, tk \in Readings(2) :
        /\ procs[g].pc = "event"
        /\ procs' = [procs EXCEPT
               ![g].pc = "load",
               ![g].event = CustodyEvent(generateID("CE", tk[1]), SharedID, tk[2],
                                "TRANSFERRED", "officerA", "officerB", "locker",
                                procs[g].toLocation, "analysis", "")]
        /\ clock' = tk[2]
        /\ UNCHANGED <<heap, evidence>>
        /\ UNCHANGED seqVars

\* append(evidence.ChainOfCustody, event): the slice is read ...
TransferLoad ==
    \E g \in Transferrers :
        /\ procs[g].pc = "load"
        /\ procs' = [procs EXCEPT ![g].pc = "store",
                                  ![g].chain = heap[procs[g].ptr].ChainOfCustody]
        /\ UNCHANGED <<clock, heap, evidence>>
        /\ UNCHANGED seqVars

\* ... and evidence.ChainOfCustody = the slice read, with the event after it
TransferStore ==
    \E g \in Transferrers :
        /\ procs[g].pc = "store"
        /\ heap' = [heap EXCEPT ![procs[g].ptr].ChainOfCustody =
                                    Append(procs[g].chain, procs[g].event)]
        /\ procs' = [procs EXCEPT ![g].pc = "location"]
        /\ UNCHANGED <<clock, evidence>>
        /\ UNCHANGED seqVars

\* evidence.StorageLocation = toLocation
TransferLocation ==
    \E g \in Transferrers :
        /\ procs[g].pc = "location"
        /\ heap' = [heap EXCEPT ![procs[g].ptr].StorageLocation = procs[g].toLocation]
        /\ procs' = [procs EXCEPT ![g].pc = "stamp"]
        /\ UNCHANGED <<clock, evidence>>
        /\ UNCHANGED seqVars

\* evidence.UpdatedAt = time.Now()
TransferStamp ==
    \E g \in Transferrers, t \in After(clock) :
        /\ procs[g].pc = "stamp"
        /\ heap' = [heap EXCEPT ![procs[g].ptr].UpdatedAt = t]
        /\ procs' = [procs EXCEPT ![g].pc = "update"]
        /\ clock' = t
        /\ UNCHANGED evidence
        /\ UNCHANGED seqVars

\* return s.repo.Update(evidence): r.evidence[e.ID] = e; return nil
TransferUpdate ==
    \E g \in Transferrers :
        /\ procs[g].pc = "update"
        /\ evidence' = Put(evidence, heap[procs[g].ptr].ID, procs[g].ptr)
        /\ procs' = [procs EXCEPT ![g].pc = "done", ![g].err = ""]
        /\ UNCHANGED <<clock, heap>>
        /\ UNCHANGED seqVars

\* go GetEvidence(SharedID)
ReaderCall ==
    \E g \in Readers :
        /\ procs[g].pc \in {"idle", "done"}
        /\ procs' = [procs EXCEPT ![g].pc = "find"]
        /\ UNCHANGED <<clock, heap, evidence>>
        /\ UNCHANGED seqVars

\* e, err := GetEvidence(SharedID): repo.Find
ReaderFind ==
    \E g \in Readers :
        /\ procs[g].pc = "find"
        /\ procs' = IF SharedID \in DOMAIN evidence
                    THEN [procs EXCEPT ![g].pc = "look", ![g].ptr = evidence[SharedID]]
                    ELSE [procs EXCEPT ![g].pc = "done",
                                       ![g].err = "evidence not found"]
        /\ UNCHANGED <<clock, heap, evidence>>
        /\ UNCHANGED seqVars

\* the reader looks at the item through the pointer: its chain and location
ReaderLook ==
    \E g \in Readers :
        /\ procs[g].pc = "look"
        /\ procs' = [procs EXCEPT
               ![g].pc = "done",
               ![g].seen = [taken |-> TRUE,
                            ChainOfCustody |-> heap[procs[g].ptr].ChainOfCustody,
                            StorageLocation |-> heap[procs[g].ptr].StorageLocation]]
        /\ UNCHANGED <<clock, heap, evidence>>
        /\ UNCHANGED seqVars

\* a goroutine about to write the map while another is about to read or write
\* it: the accesses may overlap, and the Go runtime may then end the program
\* ("fatal error: concurrent map writes", "concurrent map read and map write")
MapRaceFatal ==
    \E g \in Transferrers, h \in Goroutines :
        /\ g # h
        /\ procs[g].pc = "update"
        /\ procs[h].pc \in {"find", "update"}
        /\ procs' = [x \in Goroutines |-> [procs[x] EXCEPT !.pc = "fatal"]]
        /\ UNCHANGED <<clock, heap, evidence>>
        /\ UNCHANGED seqVars

Init ==
    /\ clock = 1
    /\ heap = <<>>
    /\ outer = <<>>
    /\ evidence = <<>>
    /\ files = [p \in Paths |-> Missing]
    /\ cases = {}
    /\ currentCaseID = ""
    /\ ret = Ret("init", "", FALSE, "")
    /\ procs = [g \in Goroutines |-> Idle]
    /\ correspondence = <<>>
    /\ interviews = <<>>
    /\ transcripts = <<>>

Next ==
    \/ CreateCase
    \/ handleCaseOpen
    \/ EvidenceAdd
    \/ CreateEvidence
    \/ CreateDigital
    \/ GetEvidence
    \/ UpdateEvidence
    \/ Transfer
    \/ VerifyIntegrity
    \/ WriteFile

Spec == Init /\ [][Next]_vars

NextConcurrent ==
    \/ SeedEvidence
    \/ TransferCall
    \/ TransferFind
    \/ TransferEvent
    \/ TransferLoad
    \/ TransferStore
    \/ TransferLocation
    \/ TransferStamp
    \/ TransferUpdate
    \/ ReaderCall
    \/ ReaderFind
    \/ ReaderLook
    \/ MapRaceFatal

NextRepo ==
    \/ CreateCase
    \/ handleCaseOpen
    \/ RepoCreate
    \/ GetEvidence
    \/ Transfer
    \/ FindByCase
    \/ EvidenceList
    \/ Delete

\* the service over a repository of several items, with the repository's own
\* operations
SpecRepo == Init /\ [][NextRepo]_vars

NextCorrespondence ==
    \/ CreateCorrespondence
    \/ Send

\* the correspondence service
SpecCorrespondence == Init /\ [][NextCorrespondence]_vars

NextInterview ==
    \/ CreateInterview
    \/ Transcribe

\* the interview service
SpecInterview == Init /\ [][NextInterview]_vars

\* the same service, called by goroutines
SpecConcurrent == Init /\ [][NextConcurrent]_vars

(* ======================= properties of the ledger ===================== *)
IsPrefix(s, t) == Len(s) <= Len(t) /\ \A i \in 1..Len(s) : s[i] = t[i]

IDs == DOMAIN evidence

CreateOps == {"CreateEvidence", "CreateDigitalEvidence"}

\* the last step was a successful call of one of ops
Returned(ops) == ret.op \in ops /\ ret.err = ""

TerminalStatus == {StatusReleased, StatusDestroyed}

\* C1 (append-only custody history): over every step of the service, the custody
\* chain of every stored item is a prefix of its chain after the step: no event is
\* edited, reordered or removed.
C1_AppendOnly ==
    [][\A id \in IDs :
          id \in IDs' =>
              IsPrefix(Stored(id).ChainOfCustody, Stored(id)'.ChainOfCustody)]_vars

\* C2 (location consistency): in every reachable state each stored item has a
\* custody chain, and its StorageLocation is the ToLocation of the chain's last
\* event.
C2_LocationConsistency ==
    \A id \in IDs :
        LET chain == Stored(id).ChainOfCustody
        IN  /\ Len(chain) > 0
            /\ Stored(id).StorageLocation = chain[Len(chain)].ToLocation

\* C3 (first-event invariant): the item a successful CreateEvidence has just stored
\* has a custody chain whose first event is COLLECTED with an empty FromPerson,
\* whatever chain the caller passed in. (The claim also says that this stays so
\* afterwards; the state right after the creation is its first case.)
C3_FirstEventCollected ==
    Returned({"CreateEvidence"}) =>
        LET chain == Stored(ret.id).ChainOfCustody
        IN  /\ Len(chain) > 0
            /\ chain[1].Action = "COLLECTED"
            /\ chain[1].FromPerson = ""

\* C4 (terminal lock): a TransferCustody or UpdateEvidence call on a stored item
\* whose Status is RELEASED or DESTROYED leaves the item's Status, custody chain
\* and StorageLocation as they were, and the TransferCustody returns an error.
C4_TerminalLock ==
    [][\A id \in IDs :
          (/\ Stored(id).Status \in TerminalStatus
           /\ ret'.op \in {"TransferCustody", "UpdateEvidence"}
           /\ ret'.id = id)
          => /\ ret'.op = "TransferCustody" => ret'.err # ""
             /\ id \in IDs'
             /\ Stored(id)'.Status = Stored(id).Status
             /\ Stored(id)'.ChainOfCustody = Stored(id).ChainOfCustody
             /\ Stored(id)'.StorageLocation = Stored(id).StorageLocation]_vars

\* C5 (TransferCustody is all-or-nothing): when TransferCustody returns an error,
\* what GetEvidence shows of every stored item (custody chain, StorageLocation,
\* UpdatedAt and the rest) is what it showed before the call.
C5_TransferAllOrNothing ==
    [][(ret'.op = "TransferCustody" /\ ret'.err # "")
          => /\ IDs' = IDs
             /\ \A id \in IDs : Stored(id)' = Stored(id)]_vars

\* the item under id was created by CreateDigitalEvidence from the file at its
\* FilePath, and that file can be read now
DigitalCreated(id) ==
    /\ id \in IDs
    /\ outer[evidence[id]].embedded
    /\ outer[evidence[id]].OriginalHash # ""
    /\ calculateFileHash(outer[evidence[id]].FilePath).err = ""

\* C6 (integrity round-trip): VerifyIntegrity on an item created by
\* CreateDigitalEvidence, its file readable, returns no error, and returns true
\* exactly when the file's digest is the one taken at creation.
C6_IntegrityRoundTrip ==
    (ret.op = "VerifyIntegrity" /\ DigitalCreated(ret.id)) =>
        /\ ret.err = ""
        /\ ret.ok = (calculateFileHash(outer[evidence[ret.id]].FilePath).hash
                        = outer[evidence[ret.id]].OriginalHash)

\* C7 (hash baseline at creation): the DIGITAL item a successful CreateEvidence or
\* CreateDigitalEvidence has just stored has a FileHash that is not empty and,
\* when the item has a file, is the digest of that file's content.
C7_HashBaseline ==
    (Returned(CreateOps) /\ Stored(ret.id).Type = TypeDigital) =>
        /\ Stored(ret.id).FileHash # ""
        /\ outer[evidence[ret.id]].embedded =>
               LET h == calculateFileHash(outer[evidence[ret.id]].FilePath)
               IN  h.err = "" /\ Stored(ret.id).FileHash = h.hash

\* C8 (hash freeze): no step of the service changes the FileHash of a stored item.
C8_HashFreeze ==
    [][\A id \in IDs :
          id \in IDs' => Stored(id)'.FileHash = Stored(id).FileHash]_vars

\* C9 (case must exist): the item a successful CreateEvidence or handleEvidenceAdd
\* has just stored belongs to a case of the case store.
C9_CaseMustExist ==
    Returned({"CreateEvidence", "handleEvidenceAdd"}) =>
        Stored(ret.id).CaseID \in cases

\* C10 (digital creation is all-or-nothing): CreateDigitalEvidence, or
\* CreateEvidence on a DIGITAL item with a file, stores the item only if the file
\* could be hashed, and a call that fails on the file leaves the store as it was.
C10_DigitalAllOrNothing ==
    [][/\ (/\ ret'.op \in CreateOps
           /\ ret'.err = ""
           /\ heap'[evidence'[ret'.id]].Type = TypeDigital
           /\ outer'[evidence'[ret'.id]].embedded)
          => calculateFileHash(outer'[evidence'[ret'.id]].FilePath).err = ""
       /\ (/\ ret'.op \in CreateOps
           /\ ret'.err \in {"failed to get file info", "failed to calculate file hash"})
          => /\ heap' = heap
             /\ outer' = outer
             /\ evidence' = evidence]_vars

\* C11 (VerifyIntegrity distinguishes its outcomes): for a stored DIGITAL item with
\* a file, VerifyIntegrity returns an error exactly when the file cannot be read,
\* and otherwise no error and true exactly when the file's digest is the stored
\* FileHash.
C11_OutcomesDistinguished ==
    (/\ ret.op = "VerifyIntegrity"
     /\ ret.id \in IDs
     /\ Stored(ret.id).Type = TypeDigital
     /\ outer[evidence[ret.id]].embedded)
    => LET h == calculateFileHash(outer[evidence[ret.id]].FilePath)
       IN  /\ (ret.err # "") <=> (h.err # "")
           /\ h.err = "" => (ret.ok <=> (h.hash = Stored(ret.id).FileHash))

\* C12 (VerifyIntegrity applies to DIGITAL items only): on a stored item whose
\* Type is not DIGITAL VerifyIntegrity returns the error of an unsupported
\* operation and no verdict, and on an unknown id the error of the failed lookup.
C12_NonDigitalUnsupported ==
    ret.op = "VerifyIntegrity" =>
        /\ ret.id \notin IDs => (ret.err = "failed to find evidence" /\ ~ret.ok)
        /\ (ret.id \in IDs /\ Stored(ret.id).Type # TypeDigital) =>
               /\ ret.err = "integrity verification is only applicable to digital evidence"
               /\ ~ret.ok

\* VerifyIntegrity has just refused a stored item that is not DIGITAL
C12_Witness ==
    /\ ret.op = "VerifyIntegrity"
    /\ ret.id \in IDs
    /\ Stored(ret.id).Type = TypePhysical
    /\ ret.err # ""

\* C13 (VerifyIntegrity is read-only): a VerifyIntegrity call, whatever it
\* returns, leaves every stored item (Status, FileHash, StorageLocation, UpdatedAt,
\* ChainOfCustody and the rest) and the set of stored ids as they were.
C13_VerifyReadOnly ==
    [][ret'.op = "VerifyIntegrity" =>
          /\ IDs' = IDs
          /\ \A id \in IDs : Stored(id)' = Stored(id)
          /\ outer' = outer]_vars

\* VerifyIntegrity has just returned for a stored DIGITAL item with a custody chain
C13_Witness ==
    /\ ret.op = "VerifyIntegrity"
    /\ ret.id \in IDs
    /\ Stored(ret.id).Type = TypeDigital
    /\ Len(Stored(ret.id).ChainOfCustody) > 0

\* C14 (a transfer appends exactly one event): a TransferCustody(id, from, to,
\* fromLoc, toLoc, reason, notes) on a stored item that returns no error leaves
\* the item's chain as it was with one event appended at the end, that event
\* TRANSFERRED, of EvidenceID id and with the persons, locations, reason and notes
\* given, and leaves StorageLocation = toLoc; a chain of one event becomes one of
\* exactly two.
C14_TransferAppendsOne ==
    [][\A id \in IDs, toLoc \in Locations :
          (/\ ret'.err = ""
           /\ \E tk \in TransferTicks :
                  TransferCustody(id, "officerA", "officerB", "locker", toLoc,
                                  "analysis", "", tk, FALSE))
          => LET old == Stored(id).ChainOfCustody
                 new == Stored(id)'.ChainOfCustody
             IN  /\ Len(new) = Len(old) + 1
                 /\ SubSeq(new, 1, Len(old)) = old
                 /\ new[Len(new)].Action = "TRANSFERRED"
                 /\ new[Len(new)].EvidenceID = id
                 /\ new[Len(new)].FromPerson = "officerA"
                 /\ new[Len(new)].ToPerson = "officerB"
                 /\ new[Len(new)].FromLocation = "locker"
                 /\ new[Len(new)].ToLocation = toLoc
                 /\ new[Len(new)].Reason = "analysis"
                 /\ new[Len(new)].Notes = ""
                 /\ Stored(id)'.StorageLocation = toLoc
                 /\ Len(old) = 1 => Len(new) = 2]_vars

\* a transfer to the lab has just succeeded on an item stored in the locker with
\* its one COLLECTED event
C14_Witness ==
    /\ Returned({"TransferCustody"})
    /\ ret.id \in IDs
    /\ Len(Stored(ret.id).ChainOfCustody) = 2
    /\ Stored(ret.id).ChainOfCustody[1].Action = "COLLECTED"
    /\ Stored(ret.id).ChainOfCustody[1].ToLocation = "locker"
    /\ Stored(ret.id).ChainOfCustody[2].Action = "TRANSFERRED"
    /\ Stored(ret.id).StorageLocation = "lab"

\* C15 (transfer of an unknown id): a TransferCustody on an id the store does not
\* hold returns the error of the failed lookup and leaves the store as it was: no
\* record added, no event appended to any item.
C15_TransferUnknownId ==
    [][(ret'.op = "TransferCustody" /\ ret'.id \notin IDs)
          => /\ ret'.err = "failed to find evidence"
             /\ heap' = heap
             /\ outer' = outer
             /\ evidence' = evidence]_vars

\* a transfer of an unknown id has just failed while the store holds another item
C15_Witness ==
    /\ ret.op = "TransferCustody"
    /\ ret.err = "failed to find evidence"
    /\ ret.id \notin IDs
    /\ IDs # {}

\* C16 (no lost update): when the concurrent TransferCustody calls on one item
\* have all returned without error, the stored chain holds a TRANSFERRED event for
\* each of them (each call's own event is in it) and StorageLocation is the
\* ToLocation of the chain's last event.
C16_NoLostUpdate ==
    (\A g \in Transferrers : procs[g].pc = "done" /\ procs[g].err = "")
    => LET chain == Stored(SharedID).ChainOfCustody
       IN  /\ \A g \in Transferrers :
                  \E i \in 1..Len(chain) : chain[i] = procs[g].event
           /\ Cardinality({i \in 1..Len(chain) : chain[i].Action = "TRANSFERRED"})
                  = Cardinality(Transferrers)
           /\ Stored(SharedID).StorageLocation = chain[Len(chain)].ToLocation

\* C17 (a concurrent reader sees the event and the location together): while one
\* TransferCustody to a new location runs, what a reader sees of the item never
\* has the call's TRANSFERRED event in the chain with the old StorageLocation, nor
\* the new StorageLocation without the event.
C17_ReaderConsistent ==
    \A r \in Readers, g \in Transferrers :
        (/\ procs[r].seen.taken
         /\ \A h \in Transferrers \ {g} : procs[h].pc = "idle"
         /\ procs[g].event # NoEvent
         /\ procs[g].toLocation # "locker")
        => LET seen == procs[r].seen
           IN  (\E i \in 1..Len(seen.ChainOfCustody) :
                    seen.ChainOfCustody[i] = procs[g].event)
               <=> seen.StorageLocation = procs[g].toLocation

\* C18 (every status change has its custody event): a step that changes the
\* Status of a stored item appends exactly one event to the item's chain, and the
\* event's Action is the new status.
C18_StatusChangeLogged ==
    [][\A id \in IDs :
          (id \in IDs' /\ Stored(id)'.Status # Stored(id).Status)
          => LET old == Stored(id).ChainOfCustody
                 new == Stored(id)'.ChainOfCustody
             IN  /\ Len(new) = Len(old) + 1
                 /\ SubSeq(new, 1, Len(old)) = old
                 /\ new[Len(new)].Action = Stored(id)'.Status]_vars

\* C19 (status state machine): a step that changes the Status of a stored item
\* follows an edge of COLLECTED -> PROCESSING -> ANALYZED -> IN_STORAGE ->
\* {TRANSFERRED, RELEASED, DESTROYED}.
C19_StatusStateMachine ==
    [][\A id \in IDs :
          (id \in IDs' /\ Stored(id)'.Status # Stored(id).Status)
          => <<Stored(id).Status, Stored(id)'.Status>> \in
                 { <<StatusCollected, StatusProcessing>>,
                   <<StatusProcessing, StatusAnalyzed>>,
                   <<StatusAnalyzed, StatusInStorage>>,
                   <<StatusInStorage, StatusTransferred>>,
                   <<StatusInStorage, StatusReleased>>,
                   <<StatusInStorage, StatusDestroyed>> }]_vars

\* C20 (initial status): the item a successful CreateEvidence has just stored has
\* Status COLLECTED, whatever Status the caller's item carried.
C20_CreatedCollected ==
    Returned({"CreateEvidence"}) => Stored(ret.id).Status = StatusCollected

\* C21 (timestamps in chain order): in every stored item's custody chain the
\* events' timestamps never decrease from one event to the next, whatever
\* CollectionDate the caller gave.
C21_TimestampsOrdered ==
    \A id \in IDs :
        LET chain == Stored(id).ChainOfCustody
        IN  \A i \in 1..Len(chain), j \in 1..Len(chain) :
                i < j => chain[i].Timestamp <= chain[j].Timestamp

\* C22 (description required): no stored evidence item has an empty Description
\* (a creation without one stores nothing).
C22_DescriptionRequired ==
    \A id \in IDs : Stored(id).Description # ""

\* C23 (unique ids): a successful creation stores its item under an id the store
\* did not hold before: it never replaces the record of an earlier creation.
C23_UniqueIds ==
    [][(ret'.op \in CreateOps \cup {"handleEvidenceAdd"} /\ ret'.err = "")
          => ret'.id \notin IDs]_vars

\* C25 (evidence operations leave the case store alone): a step of
\* handleEvidenceAdd, CreateEvidence, CreateDigitalEvidence, GetEvidence,
\* UpdateEvidence, TransferCustody or VerifyIntegrity, failed or not, leaves the
\* set of cases as it was.
C25_CaseStoreFrame ==
    [][ret'.op \in {"handleEvidenceAdd", "CreateEvidence", "CreateDigitalEvidence",
                    "GetEvidence", "UpdateEvidence", "TransferCustody",
                    "VerifyIntegrity"}
          => cases' = cases]_vars

\* handleEvidenceAdd has just given up (no description, or a case that does not
\* exist) while the case store holds a case
C25_Witness ==
    /\ ret = Exit("handleEvidenceAdd")
    /\ cases = {"CASE-1"}
    /\ currentCaseID = "CASE-1"

\* C28 (event ownership): every event in a stored item's custody chain carries
\* the item's ID as its EvidenceID.
C28_EventOwnership ==
    \A id \in IDs :
        \A i \in 1..Len(Stored(id).ChainOfCustody) :
            Stored(id).ChainOfCustody[i].EvidenceID = Stored(id).ID

\* C24 (search by case): FindByCase(caseID), and the listing of handleEvidenceList,
\* return the stored items whose CaseID is caseID, each once and no other (none
\* for a case without items), and leave the store as it was.
C24_FindByCaseExact ==
    [][(ret'.op \in {"FindByCase", "handleEvidenceList"} /\ ret'.err = "")
          => LET matching == {evidence[id] : id \in {x \in IDs : Stored(x).CaseID = ret'.id}}
             IN  /\ {ret'.items[i] : i \in 1..Len(ret'.items)} = matching
                 /\ Len(ret'.items) = Cardinality(matching)
                 /\ heap' = heap
                 /\ outer' = outer
                 /\ evidence' = evidence]_vars

\* FindByCase has just returned one of the two stored items, the other being of
\* another case
C24_Witness ==
    /\ ret.op = "FindByCase"
    /\ Cardinality(IDs) = 2
    /\ Len(ret.items) = 1
    /\ \E id \in IDs : Stored(id).CaseID # ret.id

\* C26 (records only leave by Delete): a step other than Delete keeps every
\* stored id, and after Delete(id) the store holds neither id nor, in any chain,
\* a custody event whose EvidenceID is id.
C26_OnlyDeleteRemoves ==
    [][/\ ret'.op # "Delete" => IDs \subseteq IDs'
       /\ ret'.op = "Delete" =>
              /\ ret'.id \notin IDs'
              /\ \A id \in IDs' :
                     \A i \in 1..Len(Stored(id)'.ChainOfCustody) :
                         Stored(id)'.ChainOfCustody[i].EvidenceID # ret'.id]_vars

\* C27 (frame of TransferCustody): a TransferCustody on item X that returns no
\* error changes of X only ChainOfCustody, StorageLocation and UpdatedAt (ID,
\* CaseID, Type, Status, FileHash, CollectedBy, CollectionDate and the rest are as
\* before), keeps the stored ids, and changes no other item.
C27_TransferFrame ==
    [][\A id \in IDs, toLoc \in Locations :
          (/\ ret'.err = ""
           /\ \E tk \in TransferTicks :
                  TransferCustody(id, "officerA", "officerB", "locker", toLoc,
                                  "analysis", "", tk, FALSE))
          => /\ IDs' = IDs
             /\ Stored(id)' =
                    [Stored(id) EXCEPT
                        !.ChainOfCustody = Stored(id)'.ChainOfCustody,
                        !.StorageLocation = Stored(id)'.StorageLocation,
                        !.UpdatedAt = Stored(id)'.UpdatedAt]
             /\ Stored(id)'.Status = Stored(id).Status
             /\ \A o \in IDs \ {id} : Stored(o)' = Stored(o)
             /\ outer' = outer]_vars

\* a transfer has just succeeded on one of two stored items
C27_Witness ==
    /\ Returned({"TransferCustody"})
    /\ ret.id \in IDs
    /\ Cardinality(IDs) = 2
    /\ Stored(ret.id).ChainOfCustody[Len(Stored(ret.id).ChainOfCustody)].Action
           = "TRANSFERRED"

\* C29 (a correspondence is sent at most once): a SendCorrespondence on a stored
\* record returns no error only if the record's Status was DRAFT or
\* PENDING_APPROVAL, and then leaves it SENT; on a record in any other status (a
\* SENT one included) it returns an error and leaves Status and SentAt as they
\* were.
C29_SentAtMostOnce ==
    [][\A id \in DOMAIN correspondence :
          (ret'.op = "SendCorrespondence" /\ ret'.id = id)
          => /\ ret'.err = "" =>
                    /\ correspondence[id].Status \in {StatusDraft, StatusPending}
                    /\ correspondence'[id].Status = StatusSent
             /\ correspondence[id].Status \notin {StatusDraft, StatusPending} =>
                    /\ ret'.err # ""
                    /\ correspondence'[id].Status = correspondence[id].Status
                    /\ correspondence'[id].SentAt = correspondence[id].SentAt]_vars

\* a second SendCorrespondence has just been refused on a record sent before
C29_Witness ==
    /\ ret.op = "SendCorrespondence"
    /\ ret.err = "cannot send correspondence"
    /\ ret.id \in DOMAIN correspondence
    /\ correspondence[ret.id].Status = StatusSent
    /\ correspondence[ret.id].SentAt # ZeroTime

\* C30 (every transcribed interview keeps its transcript): after a successful
\* TranscribeInterview the transcript stored under the interview's TranscriptID
\* is that interview's, and every interview that had its own transcript before
\* the call still has it.
C30_TranscriptsKept ==
    [][(ret'.op = "TranscribeInterview" /\ ret'.err = "")
          => /\ interviews'[ret'.id].TranscriptID \in DOMAIN transcripts'
             /\ transcripts'[interviews'[ret'.id].TranscriptID].InterviewID = ret'.id
             /\ \A j \in DOMAIN interviews :
                    (/\ interviews[j].TranscriptID \in DOMAIN transcripts
                     /\ transcripts[interviews[j].TranscriptID].InterviewID = j)
                    => /\ interviews'[j].TranscriptID \in DOMAIN transcripts'
                       /\ transcripts'[interviews'[j].TranscriptID].InterviewID = j]_vars

====
